---- MODULE Spec2Model ----
(***************************************************************************)
(* Model of the quantools data model and statistics pipeline:              *)
(*   quantools/segmentinfo/segmentinfo.py  (ParameterROI, TissueROI,       *)
(*                                          Segmentation)                  *)
(*   quantools/visualization/utils.py      (get_canonical_tissue_color)    *)
(*   quantools/metrics/metrics.py          (compute_statistic)             *)
(*   quantools/metrics/metrics_adv.py      (compute_volume,                *)
(*                                          compute_tissue_statistics)     *)
(*                                                                         *)
(* Conventions.  A tissue name is a tuple of one-character strings, so that *)
(* str.lower() is computed character by character; strings that are only   *)
(* compared (dict keys) are plain strings, boxed as [str |-> s] where None *)
(* or another type may stand in their place (units, colors).  A numpy      *)
(* array is a record [dtype, rows]: a two-dimensional array given by its   *)
(* rows, the entries of a bool array stored as 0/1.  A one-dimensional     *)
(* array (the result of boolean indexing) is a tuple of integers.  A       *)
(* Python dict is the tuple of its [key, value] entries in insertion       *)
(* order.  A call yields [status |-> "ok", value |-> v] or [status |->     *)
(* "raise", error |-> e], e the name of the Python exception class.        *)
(* Arithmetic is exact: a real number is a reduced fraction, a standard    *)
(* deviation the symbolic square root of one; floating-point rounding is   *)
(* not modelled.                                                           *)
(***************************************************************************)
EXTENDS Integers, Sequences, FiniteSets, TLC

VARIABLES
    seg_input,    \* the list the caller passed to Segmentation(tissues=...)
    caller_list,  \* the caller's list object as it is after the construction
    seg,          \* the Segmentation object, or None before construction
    seg_result,   \* outcome of the last Segmentation.__getitem__ / construction
    roi_args,     \* the call that built roi and its arguments, or None
    roi,          \* the TissueROI object last built, or None
    roi_result,   \* outcome of the last call on the TissueROI layer
    warned,       \* tuple of the names warnings.warn was called for, in order
    stat_data,    \* the values array last handed to compute_statistic
    stat_result,  \* outcome of the last statistics call
    display_args, \* the arguments LabeledSliceDisplay(...) was constructed with
    display       \* the LabeledSliceDisplay object, or None before construction

vars == <<seg_input, caller_list, seg, seg_result, roi_args, roi, roi_result, warned,
          stat_data, stat_result, display_args, display>>

segVars  == <<seg_input, caller_list, seg, seg_result>>
roiVars  == <<roi_args, roi, roi_result>>
statVars == <<stat_data, stat_result>>
dispVars == <<display_args, display>>

\* ------------------------------------------------------------------ bounds

MaxTissues == 3     \* longest tissues list handed to Segmentation
MaxCells   == 4     \* most cells (rows * columns) of a mask / parameter map
MaxEntry   == 2     \* largest entry of an integer-valued mask
MaxMasks   == 2     \* most entries of the masks mapping of Segmentation.create_from
MaxLen     == 5     \* longest values array handed to compute_statistic
MaxDim     == 2     \* longest axis of a displayed volume
MaxLabels  == 5     \* most entries of a labels dictionary
MaxValue   == 5     \* largest value in such an array (values are 1..MaxValue)

\* ------------------------------------------------------------- Python basics

None == [py |-> "None"]

\* a str, int or dict object where an object of another type (or None) may
\* stand in its place
PyStr(x) == [str |-> x]
PyInt(n) == [int |-> n]
PyDict(d) == [dict |-> d]

Ok(v)    == [status |-> "ok", value |-> v]
Raise(e) == [status |-> "raise", error |-> e]

Str_cochlea    == <<"c","o","c","h","l","e","a">>
Str_Cochlea    == <<"C","o","c","h","l","e","a">>
Str_vestibulum == <<"v","e","s","t","i","b","u","l","u","m">>
Str_canals     == <<"c","a","n","a","l","s">>
Str_nerve      == <<"n","e","r","v","e">>
Str_NERVE      == <<"N","E","R","V","E">>
Str_unknown    == <<"u","n","k","n","o","w","n","_","t","i","s","s","u","e">>

\* str.lower(), on the letters the model's names use
UpperToLower == [c \in {"C", "N", "E", "R", "V"} |->
                   CASE c = "C" -> "c" [] c = "N" -> "n" [] c = "E" -> "e"
                     [] c = "R" -> "r" [] c = "V" -> "v"]

Lower(str) == [i \in 1..Len(str) |->
                 IF str[i] \in DOMAIN UpperToLower THEN UpperToLower[str[i]] ELSE str[i]]

RECURSIVE SumSeq(_)
SumSeq(s) == IF s = <<>> THEN 0 ELSE Head(s) + SumSeq(Tail(s))

RECURSIVE Flatten(_)
\* C-order (row-major) traversal of a two-dimensional array's rows
Flatten(rows) == IF rows = <<>> THEN <<>> ELSE Head(rows) \o Flatten(Tail(rows))

Reverse(s) == [i \in 1..Len(s) |-> s[Len(s) + 1 - i]]

\* list.__getitem__(i) of Python: i counts from 0, a negative i counts from
\* the end, anything else raises IndexError
ListGetItem(list, i) ==
    IF 0 <= i /\ i < Len(list) THEN Ok(list[i + 1])
    ELSE IF -Len(list) <= i /\ i < 0 THEN Ok(list[Len(list) + i + 1])
    ELSE Raise("IndexError")

\* list.index(x) of Python: the smallest 0-based position holding x,
\* ValueError when there is none
ListIndex(list, x) ==
    IF \E j \in 1..Len(list) : list[j] = x
    THEN Ok((CHOOSE j \in 1..Len(list) :
                 /\ list[j] = x
                 /\ \A k \in 1..(j - 1) : list[k] # x) - 1)
    ELSE Raise("ValueError")

\* dict: d[k] = v keeps the position of a key already present
HasKey(d, k) == \E j \in 1..Len(d) : d[j].key = k

DictSet(d, k, v) ==
    IF HasKey(d, k)
    THEN [j \in 1..Len(d) |-> IF d[j].key = k THEN [key |-> k, value |-> v] ELSE d[j]]
    ELSE Append(d, [key |-> k, value |-> v])

\* dict: d[k], KeyError when k is no key
DictGet(d, k) ==
    IF HasKey(d, k)
    THEN Ok(d[CHOOSE j \in 1..Len(d) : d[j].key = k].value)
    ELSE Raise("KeyError")

Keys(d)   == [j \in 1..Len(d) |-> d[j].key]
Values(d) == [j \in 1..Len(d) |-> d[j].value]

\* ------------------------------------------------------------------ numpy

Shape(arr) == <<Len(arr.rows), Len(arr.rows[1])>>

\* np.sum(arr): the sum of all entries (True counts 1, False 0)
NpSum(arr) == SumSeq(Flatten(arr.rows))

RECURSIVE SelectTrue(_, _)
\* the entries of flat sequence a at the positions where flat sequence m is true
SelectTrue(a, m) ==
    IF a = <<>> THEN <<>>
    ELSE (IF Head(m) # 0 THEN <<Head(a)>> ELSE <<>>) \o SelectTrue(Tail(a), Tail(m))

Transpose(rows) ==
    [c \in 1..Len(rows[1]) |-> [r \in 1..Len(rows) |-> rows[r][c]]]

\* variant: the entries are gathered column by column
NpBoolIndex_ColumnMajor(arr, mask) ==
    IF Shape(arr) # Shape(mask) THEN Raise("IndexError")
    ELSE Ok(SelectTrue(Flatten(Transpose(arr.rows)), Flatten(Transpose(mask.rows))))

\* arr[mask] for a bool mask: the entries at the true positions, in C order;
\* IndexError when the shapes differ
NpBoolIndex(arr, mask) ==
    IF Shape(arr) # Shape(mask) THEN Raise("IndexError")
    ELSE Ok(SelectTrue(Flatten(arr.rows), Flatten(mask.rows)))

\* ---------------------------------------------------------------------- Unit

UnitValues == {"seconds", "milliseconds", "none"}

UnitMember(value) == [enum |-> "Unit", value |-> value]

IsUnit(x) == x \in {UnitMember(v) : v \in UnitValues}

\* Unit(value): the member with that value, ValueError when there is none
Unit(value) ==
    IF value.str \in UnitValues THEN Ok(UnitMember(value.str)) ELSE Raise("ValueError")

\* -------------------------------------------------- canonical tissue colors

SLICER_COLOR_SPECIFICATION ==
    << [key |-> Str_cochlea,    value |-> PyStr("#80ae80")],
       [key |-> Str_vestibulum, value |-> PyStr("#f1d691")],
       [key |-> Str_canals,     value |-> PyStr("#b17a65")],
       [key |-> Str_nerve,      value |-> PyStr("#6fb8d2")] >>

\* get_canonical_tissue_color(name): the color and the warnings it emitted
get_canonical_tissue_color(name) ==
    LET hit == DictGet(SLICER_COLOR_SPECIFICATION, Lower(name))
    IN  IF hit.status = "ok"
        THEN [value |-> hit.value, warned |-> <<>>]
        ELSE [value |-> None, warned |-> <<name>>]

\* ---------------------------------------------------------------- TissueROI

ParameterROI(name, values, unit) == [name |-> name, values |-> values, unit |-> unit]

\* TissueROI(name=, parameters=, mask=, color=) with __attrs_post_init__
TissueROI(name, parameters, mask, color) ==
    [name |-> name, parameters |-> parameters, mask |-> mask,
     volume |-> NpSum(mask), color |-> color]

\* variant: the parameters are merged last and win over mask, name, volume
TissueGetItem_ParametersLast(t, item_name) ==
    LET special == <<[key |-> "mask", value |-> t.mask],
                     [key |-> "name", value |-> PyStr(t.name)],
                     [key |-> "volume", value |-> PyInt(t.volume)]>>
    IN  DictGet(t.parameters \o
                SelectSeq(special, LAMBDA e : ~HasKey(t.parameters, e.key)), item_name)

\* TissueROI.__getitem__(item_name)
TissueGetItem(t, item_name) ==
    LET mapping == DictSet(DictSet(DictSet(t.parameters, "mask", t.mask),
                                   "name", PyStr(t.name)), "volume", PyInt(t.volume))
    IN  DictGet(mapping, item_name)

\* TissueROI.__iter__: the ParameterROIs in insertion order
TissueIter(t) == Values(t.parameters)

canonical_parameters(unit) ==
    << <<"T1", unit>>, <<"T2", unit>>, <<"M0", UnitMember("none")>>,
       <<"IP", UnitMember("none")>> >>

\* maps[parameter_name][mask]: TypeError when maps is not subscriptable
MapsSelect(maps, parameter_name, mask) ==
    IF maps = None THEN Raise("TypeError")
    ELSE LET arr == DictGet(maps.dict, parameter_name)
         IN  IF arr.status = "raise" THEN arr ELSE NpBoolIndex(arr.value, mask)

RECURSIVE ExtractParameters_KeyErrorOnly(_, _, _, _)
\* variant: only KeyError skips the parameter
ExtractParameters_KeyErrorOnly(todo, maps, mask, parameters) ==
    IF todo = <<>> THEN Ok(parameters)
    ELSE LET parameter_name == Head(todo)[1]
             parameter_unit == Head(todo)[2]
             values == MapsSelect(maps, parameter_name, mask)
         IN  IF values.status = "raise"
             THEN IF values.error = "KeyError"
                  THEN ExtractParameters_KeyErrorOnly(Tail(todo), maps, mask, parameters)
                  ELSE values
             ELSE ExtractParameters_KeyErrorOnly(Tail(todo), maps, mask,
                      DictSet(parameters, parameter_name,
                              ParameterROI(parameter_name, values.value, parameter_unit)))

RECURSIVE ExtractParameters(_, _, _, _)
\* the loop of TissueROI.create_from over the canonical parameters still to
\* do: TypeError and KeyError skip the parameter, any other error leaves
ExtractParameters(todo, maps, mask, parameters) ==
    IF todo = <<>> THEN Ok(parameters)
    ELSE LET parameter_name == Head(todo)[1]
             parameter_unit == Head(todo)[2]
             values == MapsSelect(maps, parameter_name, mask)
         IN  IF values.status = "raise"
             THEN IF values.error \in {"TypeError", "KeyError"}
                  THEN ExtractParameters(Tail(todo), maps, mask, parameters)
                  ELSE values
             ELSE ExtractParameters(Tail(todo), maps, mask,
                      DictSet(parameters, parameter_name,
                              ParameterROI(parameter_name, values.value, parameter_unit)))

\* variant: a color left out is looked up in the canonical table
TissueCreateFrom_LooksUpColor(name, maps, mask, unit, color) ==
    LET u == IF IsUnit(unit) THEN Ok(unit) ELSE Unit(unit)
    IN  IF u.status = "raise" THEN u
        ELSE LET parameters == ExtractParameters(canonical_parameters(u.value),
                                                 maps, mask, <<>>)
             IN  IF parameters.status = "raise" THEN parameters
                 ELSE Ok(TissueROI(name, parameters.value, mask,
                                   IF color = None
                                   THEN get_canonical_tissue_color(name).value
                                   ELSE color))

\* a create_from that converts the unit only after the extraction
TissueCreateFrom_ExtractsFirst(name, maps, mask, unit, color) ==
    LET parameters == ExtractParameters(canonical_parameters(unit), maps, mask, <<>>)
        u == IF IsUnit(unit) THEN Ok(unit) ELSE Unit(unit)
    IN  IF parameters.status = "raise" THEN parameters
        ELSE IF u.status = "raise" THEN u
        ELSE Ok(TissueROI(name, parameters.value, mask, color))

\* TissueROI.create_from(name, maps, mask, unit, color)
TissueCreateFrom(name, maps, mask, unit, color) ==
    LET u == IF IsUnit(unit) THEN Ok(unit) ELSE Unit(unit)
    IN  IF u.status = "raise" THEN u
        ELSE LET parameters == ExtractParameters(canonical_parameters(u.value),
                                                 maps, mask, <<>>)
             IN  IF parameters.status = "raise" THEN parameters
                 ELSE Ok(TissueROI(name, parameters.value, mask, color))

\* -------------------------------------------------------------- Segmentation

SortModes == {"none", "increasing", "decreasing"}

RECURSIVE InsertByVolume(_, _)
\* place t behind every element whose volume is not larger (keeps ties in order)
InsertByVolume(sorted, t) ==
    IF sorted = <<>> THEN <<t>>
    ELSE IF Head(sorted).volume <= t.volume
         THEN <<Head(sorted)>> \o InsertByVolume(Tail(sorted), t)
         ELSE <<t>> \o sorted

RECURSIVE SortedFrom(_, _)
SortedFrom(acc, rest) ==
    IF rest = <<>> THEN acc
    ELSE SortedFrom(InsertByVolume(acc, Head(rest)), Tail(rest))

\* an ascending sort that puts tissues of equal volume in reverse input order
SortedByVolume_TiesReversed(tissues) == SortedFrom(<<>>, Reverse(tissues))

\* list(sorted(tissues, key=lambda tissue: tissue.volume)): stable, ascending
SortedByVolume(tissues) == SortedFrom(<<>>, tissues)

\* variant: the reversal for "decreasing" left out
PostInitTissues_NoReverse(tissues, sort) ==
    IF sort = "none" THEN tissues ELSE SortedByVolume(tissues)

\* Segmentation.__attrs_post_init__: the tissues as stored after construction
PostInitTissues(tissues, sort) ==
    IF sort = "none" THEN tissues
    ELSE IF sort = "decreasing" THEN Reverse(SortedByVolume(tissues))
    ELSE SortedByVolume(tissues)

\* a post-init that sorts the list it was given in place
CallerListAfter_SortInPlace(tissues, sort) ==
    IF sort = "none" THEN tissues ELSE SortedByVolume(tissues)

\* the list object the caller passed, after Segmentation.__attrs_post_init__:
\* sorted(...) and list(reversed(...)) build new lists and the assignments
\* rebind self.tissues, so the list passed in is never written
CallerListAfter(tissues, sort) == tissues

\* variant: positions counted from the end are rejected
SegGetItemInt_NoNegative(s, item) ==
    IF 0 <= item /\ item < Len(s.tissues) THEN Ok(s.tissues[item + 1])
    ELSE Raise("IndexError")

\* Segmentation.__getitem__(item) for an int item
SegGetItemInt(s, item) == ListGetItem(s.tissues, item)

\* Segmentation.__getitem__(item) for a str item
SegGetItemStr(s, item) ==
    LET names == [j \in 1..Len(s.tissues) |-> s.tissues[j].name]
        idx   == ListIndex(names, item)
    IN  IF idx.status = "raise" THEN idx
        ELSE ListGetItem(s.tissues, idx.value)

\* ---------------------------------------------------------------- statistics

RECURSIVE Gcd(_, _)
Gcd(a, b) == IF b = 0 THEN a ELSE Gcd(b, a % b)

Abs(x) == IF x < 0 THEN -x ELSE x

\* the fraction n / d (d > 0) in lowest terms
Frac(n, d) == LET g == Gcd(Abs(n), d) IN [num |-> n \div g, den |-> d \div g]

NaN == [nan |-> TRUE]

\* the non-negative square root of a fraction, kept symbolic
Sqrt(f) == [sqrt |-> f]

Squares(data) == [i \in 1..Len(data) |-> data[i] * data[i]]

RECURSIVE InsertInt(_, _)
InsertInt(sorted, x) ==
    IF sorted = <<>> THEN <<x>>
    ELSE IF Head(sorted) <= x THEN <<Head(sorted)>> \o InsertInt(Tail(sorted), x)
         ELSE <<x>> \o sorted

RECURSIVE SortInts(_)
SortInts(data) == IF data = <<>> THEN <<>> ELSE InsertInt(SortInts(Tail(data)), Head(data))

\* np.mean(data): nan (and a RuntimeWarning) for an empty array
NpMean(data) ==
    IF Len(data) = 0 THEN Ok(NaN) ELSE Ok(Frac(SumSeq(data), Len(data)))

\* a standard deviation with the divisor N
NpStd_Population(data) ==
    LET n == Len(data)
    IN  IF n <= 1 THEN Ok(NaN)
        ELSE Ok(Sqrt(Frac(n * SumSeq(Squares(data)) - SumSeq(data) * SumSeq(data),
                          n * n)))

\* np.std(data, ddof=1): sqrt(sum((x - mean)^2) / (N - 1)), nan (and a
\* RuntimeWarning) when N - 1 <= 0
NpStd(data) ==
    LET n == Len(data)
    IN  IF n <= 1 THEN Ok(NaN)
        ELSE Ok(Sqrt(Frac(n * SumSeq(Squares(data)) - SumSeq(data) * SumSeq(data),
                          n * (n - 1))))

\* np.max(data): an empty array has no maximum, ValueError
NpMax(data) ==
    IF Len(data) = 0 THEN Raise("ValueError")
    ELSE Ok(Frac(SortInts(data)[Len(data)], 1))

\* np.min(data): an empty array has no minimum, ValueError
NpMin(data) ==
    IF Len(data) = 0 THEN Raise("ValueError")
    ELSE Ok(Frac(SortInts(data)[1], 1))

\* np.quantile(data, q = qn / qd), linear interpolation between the closest
\* ranks of the sorted data; nan for an empty array
NpQuantile(data, qn, qd) ==
    LET n   == Len(data)
        a   == SortInts(data)
        lo  == (qn * (n - 1)) \div qd
        rem == (qn * (n - 1)) % qd
        hi  == IF lo + 2 <= n THEN lo + 2 ELSE lo + 1
    IN  IF n = 0 THEN Ok(NaN)
        ELSE Ok(Frac(a[lo + 1] * qd + (a[hi] - a[lo + 1]) * rem, qd))

\* np.median(data)
NpMedian(data) == NpQuantile(data, 1, 2)

\* the first error among the outcomes, in evaluation order, or None
FirstRaise(outs) ==
    IF \E j \in 1..Len(outs) : outs[j].status = "raise"
    THEN outs[CHOOSE j \in 1..Len(outs) :
                 /\ outs[j].status = "raise"
                 /\ \A k \in 1..(j - 1) : outs[k].status = "ok"]
    ELSE None

\* compute_statistic(data) of metrics.py: the dict display evaluates its
\* values in order, and the first error leaves the function
compute_statistic(data) ==
    LET mean   == NpMean(data)
        stdev  == NpStd(data)
        max    == NpMax(data)
        min    == NpMin(data)
        median == NpMedian(data)
        q_95   == NpQuantile(data, 95, 100)
        q_05   == NpQuantile(data, 5, 100)
        err    == FirstRaise(<<mean, stdev, max, min, median, q_95, q_05>>)
    IN  IF err # None THEN err
        ELSE Ok([mean |-> mean.value, stdev |-> stdev.value, max |-> max.value,
                 min |-> min.value, median |-> median.value,
                 q_95 |-> q_95.value, q_05 |-> q_05.value])

\* compute_statistical_parameters(values) of quantools.metrics.metrics_raw:
\* the seven statistics by the same formulas, every one of them undefined
\* (nan) rather than an error where the array is too short for it
compute_statistical_parameters(values) ==
    LET NanIfRaise(out) == IF out.status = "raise" THEN NaN ELSE out.value
    IN  Ok([mean   |-> NanIfRaise(NpMean(values)),
            stdev  |-> NanIfRaise(NpStd(values)),
            max    |-> NanIfRaise(NpMax(values)),
            min    |-> NanIfRaise(NpMin(values)),
            median |-> NanIfRaise(NpMedian(values)),
            q_95   |-> NanIfRaise(NpQuantile(values, 95, 100)),
            q_05   |-> NanIfRaise(NpQuantile(values, 5, 100))])

\* variant: the volume is taken from the last parameter
compute_volume_LastParameter(tissue) ==
    IF TissueIter(tissue) = <<>> THEN Raise("StopIteration")
    ELSE Ok(<<[key |-> "volume",
               value |-> PyInt(Len(TissueIter(tissue)[Len(TissueIter(tissue))].values))]>>)

\* compute_volume(tissue) of metrics_adv.py: next(iter(tissue)) raises
\* StopIteration when the tissue has no parameter
compute_volume(tissue) ==
    IF TissueIter(tissue) = <<>> THEN Raise("StopIteration")
    ELSE Ok(<<[key |-> "volume", value |-> PyInt(Len(TissueIter(tissue)[1].values))]>>)

RECURSIVE ParameterStatistics(_, _)
\* the loop of compute_tissue_statistics over the parameters still to do
ParameterStatistics(todo, parameter_statistics) ==
    IF todo = <<>> THEN Ok(parameter_statistics)
    ELSE LET parameter == Head(todo)
             stat == compute_statistical_parameters(parameter.values)
         IN  IF stat.status = "raise" THEN stat
             ELSE ParameterStatistics(Tail(todo),
                      DictSet(parameter_statistics, parameter.name, stat.value))

\* dict.update(other)
RECURSIVE DictUpdate(_, _)
DictUpdate(d, other) ==
    IF other = <<>> THEN d
    ELSE DictUpdate(DictSet(d, Head(other).key, Head(other).value), Tail(other))

\* compute_tissue_statistics(tissue)
compute_tissue_statistics(tissue) ==
    LET parameter_statistics == ParameterStatistics(TissueIter(tissue), <<>>)
        volume == compute_volume(tissue)
    IN  IF parameter_statistics.status = "raise" THEN parameter_statistics
        ELSE IF volume.status = "raise" THEN volume
        ELSE Ok(<<[key |-> tissue.name,
                   value |-> DictUpdate(parameter_statistics.value, volume.value)]>>)

RECURSIVE StatisticsOver(_, _)
\* the loop of compute_statistics over the tissues still to do: the first
\* error leaves the function
StatisticsOver(todo, statistics) ==
    IF todo = <<>> THEN Ok(statistics)
    ELSE LET one == compute_tissue_statistics(Head(todo))
         IN  IF one.status = "raise" THEN one
             ELSE StatisticsOver(Tail(todo), DictUpdate(statistics, one.value))

\* compute_statistics(data), data a TissueROI or a Segmentation
compute_statistics(data) ==
    IF "tissues" \notin DOMAIN data THEN compute_tissue_statistics(data)
    ELSE StatisticsOver(data.tissues, <<>>)

RECURSIVE BuildTissues(_, _, _)
\* the loop of Segmentation.create_from over masks.items() still to do:
\* [out, warned], out the list of tissues or the first error raised
BuildTissues(todo, parameters, acc) ==
    IF todo = <<>> THEN acc
    ELSE LET tissue_name == Head(todo).key
             mask   == Head(todo).value
             color  == get_canonical_tissue_color(tissue_name)
             tissue == TissueCreateFrom(tissue_name, parameters, mask,
                                        PyStr("seconds"), color.value)
             warns  == acc.warned \o color.warned
         IN  IF tissue.status = "raise"
             THEN [out |-> tissue, warned |-> warns]
             ELSE BuildTissues(Tail(todo), parameters,
                               [out |-> Ok(Append(acc.out.value, tissue.value)),
                                warned |-> warns])

\* a create_from that leaves out the tissues of an empty mask
SegCreateFrom_SkipsEmpty(parameters, masks) ==
    LET built == BuildTissues(masks, parameters, [out |-> Ok(<<>>), warned |-> <<>>])
    IN  IF built.out.status = "raise"
        THEN [out |-> built.out, warned |-> built.warned, tissues |-> None]
        ELSE LET kept == SelectSeq(built.out.value, LAMBDA t : t.volume > 0)
             IN  [out |-> Ok([tissues |-> PostInitTissues(kept, "decreasing"),
                              sort |-> "decreasing"]),
                  warned |-> built.warned, tissues |-> kept]

\* Segmentation.create_from(parameters, masks): [out, warned, tissues], out the
\* Segmentation (sort left at its default) or the error raised, tissues the
\* list handed to the constructor
SegCreateFrom(parameters, masks) ==
    LET built == BuildTissues(masks, parameters, [out |-> Ok(<<>>), warned |-> <<>>])
    IN  IF built.out.status = "raise"
        THEN [out |-> built.out, warned |-> built.warned, tissues |-> None]
        ELSE [out |-> Ok([tissues |-> PostInitTissues(built.out.value, "decreasing"),
                          sort |-> "decreasing"]),
              warned |-> built.warned, tissues |-> built.out.value]

\* ------------------------------------------------- inputs of the model runs

Shapes == {sh \in (1..MaxCells) \X (1..MaxCells) : sh[1] * sh[2] <= MaxCells}

ArraysOver(dtype, shape, entries) ==
    {[dtype |-> dtype, rows |-> rows] :
        rows \in [1..shape[1] -> [1..shape[2] -> entries]]}

BoolArrays(shape) == ArraysOver("bool", shape, {0, 1})

\* tissues handed to Segmentation(...) directly: two names with the four
\* boolean masks of shape (1, 2) (volumes 0, 1, 1, 2), each with the T1 values
\* of one map under its mask, and one tissue without parameters; no color
SegNames   == {Str_cochlea, Str_nerve}
SegTissues ==
    {TissueROI(n, <<[key |-> "T1",
                     value |-> ParameterROI("T1",
                                   NpBoolIndex([dtype |-> "float", rows |-> <<(<<1, 2>>)>>],
                                               m).value,
                                   UnitMember("seconds"))]>>, m, None) :
        n \in SegNames, m \in BoolArrays(<<1, 2>>)}
    \cup {TissueROI(Str_nerve, <<>>, [dtype |-> "bool", rows |-> <<(<<1, 1>>)>>], None)}

RECURSIVE ListsUpTo(_, _)
ListsUpTo(S, n) ==
    IF n = 0 THEN {<<>>}
    ELSE LET shorter == ListsUpTo(S, n - 1)
         IN  shorter \cup {Append(l, x) : l \in {k \in shorter : Len(k) = n - 1}, x \in S}

\* --------------------------------------------- specification: Segmentation

Idle == /\ seg_input = None /\ caller_list = None /\ seg = None /\ seg_result = None
        /\ roi_args = None /\ roi = None /\ roi_result = None /\ warned = <<>>
        /\ stat_data = None /\ stat_result = None
        /\ display_args = None /\ display = None

\* Segmentation(tissues=tissues, sort=sort)
NewSegmentation(tissues, sort) ==
    /\ seg = None
    /\ seg_input' = tissues
    /\ caller_list' = CallerListAfter(tissues, sort)
    /\ seg' = [tissues |-> PostInitTissues(tissues, sort), sort |-> sort]
    /\ seg_result' = None
    /\ UNCHANGED <<roiVars, warned, statVars, dispVars>>

\* segmentation[item], item an int
GetItemInt(item) ==
    /\ seg # None
    /\ seg_result = None
    /\ seg_result' = [call |-> "getitem_int", item |-> item,
                      out |-> SegGetItemInt(seg, item)]
    /\ UNCHANGED <<seg_input, caller_list, seg, roiVars, warned, statVars, dispVars>>

\* segmentation[item], item a str
GetItemStr(item) ==
    /\ seg # None
    /\ seg_result = None
    /\ seg_result' = [call |-> "getitem_str", item |-> item,
                      out |-> SegGetItemStr(seg, item)]
    /\ UNCHANGED <<seg_input, caller_list, seg, roiVars, warned, statVars, dispVars>>

\* compute_statistics(segmentation)
ComputeStatisticsSeg ==
    /\ seg # None
    /\ seg_result = None
    /\ seg_result' = [call |-> "compute_statistics", out |-> compute_statistics(seg)]
    /\ UNCHANGED <<seg_input, caller_list, seg, roiVars, warned, statVars, dispVars>>

IntItems == (-(MaxTissues + 1))..(MaxTissues + 1)
StrItems == SegNames \cup {Str_unknown}

NextSeg ==
    \/ /\ seg = None
       /\ \E tissues \in ListsUpTo(SegTissues, MaxTissues), sort \in SortModes :
              NewSegmentation(tissues, sort)
    \/ /\ seg # None
       /\ \E item \in IntItems : GetItemInt(item)
    \/ /\ seg # None
       /\ \E item \in StrItems : GetItemStr(item)
    \/ ComputeStatisticsSeg

SpecSeg == Idle /\ [][NextSeg]_vars

\* ------------------------------------------------ specification: TissueROI

CanonicalNames == <<"T1", "T2", "M0", "IP">>

\* a parameter map of a shape: entry start + step * (C-order position)
Ramp(shape, start, step) ==
    [dtype |-> "float",
     rows  |-> [r \in 1..shape[1] |-> [c \in 1..shape[2] |->
                   start + step * ((r - 1) * shape[2] + (c - 1))]]]

BaseArrays(shape) == {Ramp(shape, 1, 1), Ramp(shape, 9, -2)}

Shifted(arr, by) ==
    [dtype |-> arr.dtype,
     rows  |-> [r \in 1..Len(arr.rows) |-> [c \in 1..Len(arr.rows[r]) |->
                   arr.rows[r][c] + by]]]

ParamShift == [p \in {"T1", "T2", "M0", "IP"} |->
                 CASE p = "T1" -> 0 [] p = "T2" -> 10 [] p = "M0" -> 20 [] p = "IP" -> 30]

\* a maps mapping holding the names in present, each with its own array of the
\* base array's shape; the mapping lists them in the order IP, M0, T2, T1
MapsOf(present, base) ==
    LET order == <<"IP", "M0", "T2", "T1">>
        pick  == SelectSeq(order, LAMBDA p : p \in present)
    IN  PyDict([j \in 1..Len(pick) |->
                   [key |-> pick[j], value |-> Shifted(base, ParamShift[pick[j]])]])

OtherShape(shape) == IF shape = <<1, 1>> THEN <<1, 2>> ELSE <<1, 1>>

AllBoolMasks == UNION {BoolArrays(sh) : sh \in Shapes}
AllIntMasks  == UNION {ArraysOver("int", sh, 0..MaxEntry) : sh \in Shapes}

RoiNames   == {Str_Cochlea, Str_cochlea, Str_NERVE, Str_unknown}
UnitInputs == {PyStr("seconds"), PyStr("milliseconds"), PyStr("minutes"),
               UnitMember("milliseconds")}
ColorInputs == {None, PyStr("#ff0000")}

CreateFromArgs(name, maps, mask, unit, color) ==
    [via |-> "create_from", name |-> name, maps |-> maps, mask |-> mask,
     unit |-> unit, color |-> color]

\* arguments of TissueROI.create_from: every boolean mask with every subset of
\* the canonical parameters present (same shape), with a maps object that is
\* not subscriptable and with maps of another shape; every name, unit
\* and color with one mask; and a unit string that is no Unit value with a
\* maps object that is not subscriptable and with maps of another shape
CreateFromInputs ==
    {CreateFromArgs(Str_Cochlea, maps, mask, PyStr("seconds"), None) :
        <<mask, maps>> \in UNION {
            {<<m, mp>> : mp \in {MapsOf(present, base) :
                                   present \in SUBSET {"T1", "T2", "M0", "IP"},
                                   base \in BaseArrays(Shape(m))}
                               \cup {None, MapsOf({"T1", "M0"}, Ramp(OtherShape(Shape(m)), 1, 1))}}
            : m \in AllBoolMasks}}
    \cup
    {CreateFromArgs(name, MapsOf({"T1", "T2"}, Ramp(<<2, 2>>, 1, 1)),
                    [dtype |-> "bool", rows |-> <<(<<1, 0>>), (<<0, 1>>)>>], unit, color) :
        name \in RoiNames, unit \in UnitInputs, color \in ColorInputs}
    \cup
    {CreateFromArgs(Str_NERVE, maps, [dtype |-> "bool", rows |-> <<(<<1, 1>>)>>],
                    PyStr("minutes"), None) :
        maps \in {None, MapsOf({"T1", "M0"}, Ramp(<<2, 1>>, 1, 1))}}

ConstructArgs(name, parameters, mask, color) ==
    [via |-> "init", name |-> name, parameters |-> parameters, mask |-> mask,
     color |-> color]

\* a parameters dict with the given keys, in the order volume, T1, name, mask,
\* the j-th of them holding j values
ParametersOf(keys) ==
    LET order == <<"volume", "T1", "name", "mask">>
        pick  == SelectSeq(order, LAMBDA k : k \in keys)
    IN  [j \in 1..Len(pick) |->
           [key |-> pick[j],
            value |-> ParameterROI(pick[j], [i \in 1..j |-> i + j], UnitMember("none"))]]

\* arguments of TissueROI(...): every boolean and integer mask without
\* parameters, and every parameters dict over the keys T1, mask, name, volume
ConstructInputs ==
    {ConstructArgs(Str_nerve, <<>>, mask, None) : mask \in AllBoolMasks \cup AllIntMasks}
    \cup
    {ConstructArgs(Str_nerve, ParametersOf(keys),
                   [dtype |-> "bool", rows |-> <<(<<1, 0, 1>>)>>], None) :
        keys \in SUBSET {"T1", "mask", "name", "volume"}}

ItemNames == {"T1", "T2", "M0", "IP", "mask", "name", "volume", "color"}

\* TissueROI.create_from(**a)
CreateFrom(a) ==
    /\ roi_args = None
    /\ roi_args' = a
    /\ LET out == TissueCreateFrom(a.name, a.maps, a.mask, a.unit, a.color)
       IN  /\ roi' = IF out.status = "ok" THEN out.value ELSE None
           /\ roi_result' = [call |-> "create_from", out |-> out]
    /\ UNCHANGED <<segVars, warned, statVars, dispVars>>

\* TissueROI(name=, parameters=, mask=, color=)
Construct(a) ==
    /\ roi_args = None
    /\ roi_args' = a
    /\ roi' = TissueROI(a.name, a.parameters, a.mask, a.color)
    /\ roi_result' = [call |-> "init", out |-> Ok(None)]
    /\ UNCHANGED <<segVars, warned, statVars, dispVars>>

Built == roi # None /\ roi_result.call \in {"create_from", "init"}

\* tissue[item_name]
GetItem(item_name) ==
    /\ Built
    /\ roi_result' = [call |-> "getitem", item |-> item_name,
                      out |-> TissueGetItem(roi, item_name)]
    /\ UNCHANGED <<segVars, roi_args, roi, warned, statVars, dispVars>>

\* compute_statistics(tissue)
ComputeStatistics ==
    /\ Built
    /\ roi_result' = [call |-> "compute_statistics",
                      out |-> compute_statistics(roi)]
    /\ UNCHANGED <<segVars, roi_args, roi, warned, statVars, dispVars>>

MasksInputs ==
    {masks \in ListsUpTo({[key |-> n, value |-> m] :
                              n \in RoiNames, m \in BoolArrays(<<1, 2>>)}, MaxMasks) :
        \A i, j \in 1..Len(masks) : masks[i].key = masks[j].key => i = j}

ParametersInputs ==
    {MapsOf({"T1", "IP"}, Ramp(<<1, 2>>, 1, 1)), MapsOf({"T2"}, Ramp(<<2, 1>>, 1, 1)), None}

\* Segmentation.create_from(parameters, masks)
SegmentationCreateFrom(parameters, masks) ==
    /\ seg = None /\ seg_result = None /\ roi_args = None
    /\ LET r == SegCreateFrom(parameters, masks)
       IN  /\ seg_input' = r.tissues
           /\ caller_list' = r.tissues
           /\ seg' = IF r.out.status = "ok" THEN r.out.value ELSE None
           /\ seg_result' = [call |-> "create_from", parameters |-> parameters,
                             masks |-> masks, out |-> r.out]
           /\ warned' = r.warned
    /\ UNCHANGED <<roiVars, statVars, dispVars>>

NextRoi ==
    \/ /\ roi_args = None /\ seg_result = None
       /\ \E a \in CreateFromInputs : CreateFrom(a)
    \/ /\ roi_args = None /\ seg_result = None
       /\ \E a \in ConstructInputs : Construct(a)
    \/ \E item_name \in ItemNames : GetItem(item_name)
    \/ ComputeStatistics
    \/ /\ roi_args = None /\ seg_result = None
       /\ \E parameters \in ParametersInputs, masks \in MasksInputs :
              SegmentationCreateFrom(parameters, masks)

SpecRoi == Idle /\ [][NextRoi]_vars

\* ------------------------------------------------------------ claims C1-C3

Adjacent(l) == 1..(Len(l) - 1)

\* C1: after construction the tissues are in non-increasing volume order for
\* sort="decreasing", in non-decreasing volume order for sort="increasing",
\* and exactly in the caller's order for sort="none".
C1_SortInvariant ==
    seg # None =>
        /\ seg.sort = "decreasing" =>
               \A i \in Adjacent(seg.tissues) :
                   seg.tissues[i].volume >= seg.tissues[i + 1].volume
        /\ seg.sort = "increasing" =>
               \A i \in Adjacent(seg.tissues) :
                   seg.tissues[i].volume <= seg.tissues[i + 1].volume
        /\ seg.sort = "none" => seg.tissues = seg_input
        /\ Len(seg.tissues) = Len(seg_input)

\* a decreasing construction of three tissues of three volumes that had to
\* reorder its input
C1_Witness ==
    /\ seg # None
    /\ seg.sort = "decreasing"
    /\ Len(seg.tissues) = 3
    /\ seg.tissues # seg_input
    /\ seg.tissues[1].volume > seg.tissues[2].volume
    /\ seg.tissues[2].volume > seg.tissues[3].volume

IsIntLookup == seg_result # None /\ seg_result.call = "getitem_int"
IsStrLookup == seg_result # None /\ seg_result.call = "getitem_str"

\* C2 (as claimed): an integer lookup returns tissues[i] for 0 <= i < length
\* and fails with IndexError for every other integer, negative ones included.
C2_Original ==
    IsIntLookup =>
        LET i == seg_result.item
            n == Len(seg.tissues)
        IN  IF 0 <= i /\ i < n
            THEN seg_result.out = Ok(seg.tissues[i + 1])
            ELSE seg_result.out = Raise("IndexError")

\* C2 (amended): an integer lookup returns tissues[i] for 0 <= i < length,
\* returns tissues[length + i] for -length <= i < 0, and fails with IndexError
\* for every integer below -length or at least length.
C2_IntLookup ==
    IsIntLookup =>
        LET i == seg_result.item
            n == Len(seg.tissues)
        IN  /\ (0 <= i /\ i < n) => seg_result.out = Ok(seg.tissues[i + 1])
            /\ (-n <= i /\ i < 0) => seg_result.out = Ok(seg.tissues[n + i + 1])
            /\ (i >= n \/ i < -n) => seg_result.out = Raise("IndexError")

\* lookups of the last tissue by index -1, and a failing one
C2_Witness ==
    /\ IsIntLookup
    /\ Len(seg.tissues) = 2
    /\ seg_result.item = -1
    /\ seg_result.out.status = "ok"
    /\ seg_result.out.value = seg.tissues[2]
    /\ seg.tissues[1] # seg.tissues[2]

FirstWithName(l, name) ==
    CHOOSE j \in 1..Len(l) :
        /\ l[j].name = name
        /\ \A k \in 1..(j - 1) : l[k].name # name

\* C3 (as claimed): a lookup by name returns the tissue at the smallest index
\* (post-sort) carrying that name, and fails with a KeyError (KeyNotFound)
\* when no tissue carries it.
C3_Original ==
    IsStrLookup =>
        LET name == seg_result.item
        IN  IF \E j \in 1..Len(seg.tissues) : seg.tissues[j].name = name
            THEN seg_result.out = Ok(seg.tissues[FirstWithName(seg.tissues, name)])
            ELSE seg_result.out = Raise("KeyError")

\* ------------------------------------------- specification: compute_statistic

\* compute_statistic(data)
ComputeStatistic(data) ==
    /\ stat_result = None
    /\ stat_data' = data
    /\ stat_result' = compute_statistic(data)
    /\ UNCHANGED <<segVars, roiVars, warned, dispVars>>

NextStat ==
    /\ stat_result = None
    /\ \E data \in ListsUpTo(1..MaxValue, MaxLen) : ComputeStatistic(data)

SpecStat == Idle /\ [][NextStat]_vars

\* ----------------------------------------------------------- claims C4-C10

IsGetItem == roi_result # None /\ roi_result.call = "getitem"

ParameterUnder(t, key) ==
    t.parameters[CHOOSE j \in 1..Len(t.parameters) : t.parameters[j].key = key].value

\* C4 (as claimed): a TissueROI lookup returns the ParameterROI whenever the
\* name is a key of parameters, also for the keys mask, name and volume;
\* otherwise the mask, the name, the volume; otherwise it fails with KeyError.
C4_Original ==
    IsGetItem =>
        LET k == roi_result.item
        IN  roi_result.out =
                IF HasKey(roi.parameters, k) THEN Ok(ParameterUnder(roi, k))
                ELSE IF k = "mask" THEN Ok(roi.mask)
                ELSE IF k = "name" THEN Ok(PyStr(roi.name))
                ELSE IF k = "volume" THEN Ok(PyInt(roi.volume))
                ELSE Raise("KeyError")

\* C4 (amended): a TissueROI lookup returns the mask for "mask", the tissue
\* name for "name" and the volume for "volume", also when parameters has a key
\* of that name; for any other name it returns the ParameterROI when the name
\* is a key of parameters and fails with KeyError when it is not.
C4_GetItem ==
    IsGetItem =>
        LET k == roi_result.item
        IN  roi_result.out =
                IF k = "mask" THEN Ok(roi.mask)
                ELSE IF k = "name" THEN Ok(PyStr(roi.name))
                ELSE IF k = "volume" THEN Ok(PyInt(roi.volume))
                ELSE IF HasKey(roi.parameters, k) THEN Ok(ParameterUnder(roi, k))
                ELSE Raise("KeyError")

\* a lookup of "mask" on a tissue whose parameters have a key "mask"
C4_Witness ==
    /\ IsGetItem
    /\ roi_result.item = "mask"
    /\ HasKey(roi.parameters, "mask")
    /\ HasKey(roi.parameters, "T1")
    /\ roi_result.out = Ok(roi.mask)

CreatedOk == /\ roi_args # None /\ roi_args.via = "create_from"
             /\ roi_result.call = "create_from" /\ roi_result.out.status = "ok"

CanonicalColor(name) ==
    IF HasKey(SLICER_COLOR_SPECIFICATION, Lower(name))
    THEN DictGet(SLICER_COLOR_SPECIFICATION, Lower(name)).value
    ELSE None

SegCreatedOk == /\ seg_result # None /\ seg_result.call = "create_from"
                /\ seg_result.out.status = "ok"

\* C5 (as claimed): TissueROI.create_from without a color sets the color to
\* the canonical color of the lower-cased name, and to null with a warning
\* when the table lacks the name; a color supplied is kept.
C5_Original ==
    CreatedOk =>
        IF roi_args.color # None THEN roi.color = roi_args.color
        ELSE /\ roi.color = CanonicalColor(roi_args.name)
             /\ CanonicalColor(roi_args.name) = None => warned = <<roi_args.name>>

\* C5 (amended): TissueROI.create_from keeps the color it is given and, called
\* without one, leaves the color null, with no lookup and no warning.  The
\* lookup is made by Segmentation.create_from, which hands every tissue the
\* color get_canonical_tissue_color finds for the lower-cased tissue name, and
\* null with one warning per name the table lacks.
C5_Color ==
    /\ CreatedOk => roi.color = roi_args.color /\ warned = <<>>
    /\ SegCreatedOk =>
           /\ \A j \in 1..Len(seg_input) :
                  seg_input[j].color = CanonicalColor(seg_input[j].name)
           /\ warned = SelectSeq(Keys(seg_result.masks),
                                 LAMBDA n : CanonicalColor(n) = None)

\* TissueROI.create_from(name="Cochlea", ...) without a color
C5_Witness ==
    /\ CreatedOk
    /\ roi_args.name = Str_Cochlea
    /\ roi_args.color = None
    /\ roi.color = None
    /\ CanonicalColor(roi.name) = PyStr("#80ae80")

AllNaN(rec) ==
    /\ rec.mean = NaN /\ rec.stdev = NaN /\ rec.median = NaN
    /\ rec.q_95 = NaN /\ rec.q_05 = NaN

\* C6 (as claimed): statistics over a zero-length values array do not raise
\* and give NaN for mean, stdev, median and the quantiles.
C6_Original ==
    (stat_result # None /\ Len(stat_data) = 0) =>
        /\ stat_result.status = "ok"
        /\ AllNaN(stat_result.value)

Cells(arr) == {rc \in (1..Len(arr.rows)) \X (1..Len(arr.rows[1])) : TRUE}

TrueCells(arr) == {rc \in Cells(arr) : arr.rows[rc[1]][rc[2]] # 0}

\* C7 (as claimed): the volume is the number of true (non-zero) entries of
\* the mask, for every shape and for boolean and integer-valued masks.
C7_Original ==
    roi # None => roi.volume = Cardinality(TrueCells(roi.mask))

IsStatistics == roi_result # None /\ roi_result.call = "compute_statistics"

\* C8 (as claimed): compute_statistics of any TissueROI returns a mapping of
\* one entry, keyed by the tissue name, holding a record for each parameter
\* and a volume entry; also for a TissueROI without parameters.
C8_Original ==
    IsStatistics =>
        /\ roi_result.out.status = "ok"
        /\ Len(roi_result.out.value) = 1
        /\ roi_result.out.value[1].key = roi.name
        /\ \A j \in 1..Len(roi.parameters) :
               HasKey(roi_result.out.value[1].value, roi.parameters[j].value.name)
        /\ HasKey(roi_result.out.value[1].value, "volume")

\* the first canonical parameter the maps hold
FirstPresent(maps) ==
    LET pick == SelectSeq(CanonicalNames, LAMBDA p : HasKey(maps.dict, p)) IN pick[1]

\* C9: the volume in the statistics of a tissue is the element count of the
\* values of its first parameter in insertion order; for a tissue built by
\* TissueROI.create_from from a boolean mask and same-shape maps holding at
\* least one canonical parameter, that parameter is the first of T1, T2, M0,
\* IP present, and the count equals the tissue's volume attribute, the
\* number of true entries of the mask.
C9_StatVolume ==
    (IsStatistics /\ roi_result.out.status = "ok") =>
        LET volume == DictGet(roi_result.out.value[1].value, "volume")
        IN  /\ volume = Ok(PyInt(Len(roi.parameters[1].value.values)))
            /\ roi_args.via = "create_from" =>
                   /\ roi.parameters[1].key = FirstPresent(roi_args.maps)
                   /\ volume = Ok(PyInt(roi.volume))
                   /\ volume = Ok(PyInt(Cardinality(TrueCells(roi_args.mask))))

\* statistics of a tissue built by create_from from maps without T1 and a
\* mask with three true entries
C9_Witness ==
    /\ IsStatistics
    /\ roi_result.out.status = "ok"
    /\ roi_args.via = "create_from"
    /\ Keys(roi.parameters) = <<"T2", "IP">>
    /\ roi.volume = 3
    /\ DictGet(roi_result.out.value[1].value, "volume") = Ok(PyInt(3))

\* the number of true cells at or before cell rc in C order
RankOf(mask, rc) ==
    Cardinality({q \in TrueCells(mask) :
                    q[1] < rc[1] \/ (q[1] = rc[1] /\ q[2] <= rc[2])})

\* C10: for a boolean mask with k true entries and a parameter array of the
\* same shape, the ParameterROI built by TissueROI.create_from has values of
\* length k, holding the array's entries at the true positions in C order.
C10_Extraction ==
    CreatedOk =>
        \A j \in 1..Len(roi.parameters) :
            LET p   == roi.parameters[j].value
                arr == DictGet(roi_args.maps.dict, roi.parameters[j].key).value
            IN  /\ Len(p.values) = Cardinality(TrueCells(roi_args.mask))
                /\ \A rc \in TrueCells(roi_args.mask) :
                       p.values[RankOf(roi_args.mask, rc)] = arr.rows[rc[1]][rc[2]]

\* an extraction through a mask whose true cells come in another order
\* column by column than row by row
C10_Witness ==
    /\ CreatedOk
    /\ roi_args.mask.rows = <<(<<0, 1>>), (<<1, 0>>)>>
    /\ HasKey(roi.parameters, "T1")
    /\ ParameterUnder(roi, "T1").values = <<7, 5>>

\* ------------------------------------------------ interactive slice display

Min(a, b) == IF a <= b THEN a ELSE b

\* zip(a, b): pairs up to the end of the shorter one
Zip(a, b) == [j \in 1..Min(Len(a), Len(b)) |-> <<a[j], b[j]>>]

LABEL_COLOR_SEQUENCE == <<"#03fc20", "#fc0303", "#0307fc", "#f003fc">>

\* the alpha values 1.0, 0.60, 0.33, 0.33 in hundredths
LABEL_ALPHA_SEQUENCE == <<100, 60, 33, 33>>

\* iterating cycler(value=sequence): one dict {'value': x} per element, once
CyclerOf(sequence) ==
    [j \in 1..Len(sequence) |-> <<[key |-> "value", value |-> sequence[j]]>>]

DEFAULT_COLOR_CYCLE == CyclerOf(LABEL_COLOR_SEQUENCE)
DEFAULT_ALPHA_CYCLE == CyclerOf(LABEL_ALPHA_SEQUENCE)

\* a 3-D array is a tuple of tuples of tuples, arr[x][y][z]
Shape3(arr) == <<Len(arr), Len(arr[1]), Len(arr[1][1])>>

\* TrackedArray: an array and the axis (0, 1, 2) its data is sliced along
TrackedArray(array) == [array |-> array, primary_axis |-> 0]

\* TrackedArray.data: the array with the primary axis moved to the front
TrackedData(ta) ==
    LET arr == ta.array
        sh  == Shape3(arr)
    IN  IF ta.primary_axis = 0 THEN arr
        ELSE IF ta.primary_axis = 1
        THEN [y \in 1..sh[2] |-> [x \in 1..sh[1] |-> [z \in 1..sh[3] |-> arr[x][y][z]]]]
        ELSE [z \in 1..sh[3] |-> [x \in 1..sh[1] |-> [y \in 1..sh[2] |-> arr[x][y][z]]]]

\* trackedarray.data[index, ...]
GetSlice(ta, index) == TrackedData(ta)[index + 1]

\* preprocess_array(array, auto_arraycast, auto_squeeze) on a 3-D array
preprocess_array(array) == TrackedArray(array)

\* create_slider(data): an IntSlider over the first axis of data, at 0
create_slider(data) == [min |-> 0, max |-> Len(data) - 1, value |-> 0]

\* create_axis_selector(volume): a Dropdown over the axes, at the primary one
create_axis_selector(volume) == [value |-> volume.primary_axis]

\* create_colorpicker(name, **kwargs).value / create_alphaslider(...).value
WidgetValue(default, kwargs) ==
    DictGet(DictUpdate(<<[key |-> "value", value |-> default]>>, kwargs), "value").value

\* LabelOverlay(name, labelarray, parent_ax, colorpicker_kwargs, alphaslider_kwargs)
LabelOverlay(name, labelarray, colorpicker_kwargs, alphaslider_kwargs) ==
    [name        |-> name,
     labelarray  |-> labelarray,
     img         |-> GetSlice(labelarray, 0),
     colorpicker |-> WidgetValue("#ff5733", colorpicker_kwargs),
     alphaslider |-> WidgetValue(100, alphaslider_kwargs)]

\* LabelOverlay.setindex(new_index)
setindex(lo, new_index) == [lo EXCEPT !.img = GetSlice(lo.labelarray, new_index)]

\* LabelOverlay.setaxis(new_axis)
setaxis(lo, new_axis) == [lo EXCEPT !.labelarray.primary_axis = new_axis]

RECURSIVE ContainerFrom(_, _)
ContainerFrom(label_overlays, container) ==
    IF label_overlays = <<>> THEN container
    ELSE ContainerFrom(Tail(label_overlays),
                       DictSet(container, Head(label_overlays).name, Head(label_overlays)))

\* LabelOverlayContainer(*label_overlays): the dict _container
LabelOverlayContainer(label_overlays) == ContainerFrom(label_overlays, <<>>)

\* LabelOverlayContainer.allset_index(new_index)
allset_index(container, new_index) ==
    [j \in 1..Len(container) |->
        [key |-> container[j].key, value |-> setindex(container[j].value, new_index)]]

\* LabelOverlayContainer.allset_axis(new_axis)
allset_axis(container, new_axis) ==
    [j \in 1..Len(container) |->
        [key |-> container[j].key, value |-> setaxis(container[j].value, new_axis)]]

\* LabelOverlayContainer.__getitem__(key)
ContainerGetItem(container, key) == DictGet(container, key)

\* LabelOverlayContainer.from_dict(labels, ax) with the default cycles
from_dict(labels) ==
    LET cyclers == Zip(DEFAULT_COLOR_CYCLE, DEFAULT_ALPHA_CYCLE)
        pairs   == Zip(labels, cyclers)
    IN  LabelOverlayContainer(
            [j \in 1..Len(pairs) |->
                LabelOverlay(pairs[j][1].key, pairs[j][1].value,
                             pairs[j][2][1], pairs[j][2][2])])

\* LabeledSliceDisplay(volume, labels)
LabeledSliceDisplay(volume, labels) ==
    LET tracked == preprocess_array(volume)
        arrays  == [j \in 1..Len(labels) |->
                       [key |-> labels[j].key, value |-> preprocess_array(labels[j].value)]]
    IN  [volume        |-> tracked,
         img           |-> GetSlice(tracked, 0),
         overlays      |-> from_dict(arrays),
         slider        |-> create_slider(TrackedData(tracked)),
         axis_selector |-> create_axis_selector(tracked)]

\* on_slider_value_change(change) with change['new'] = new_idx
on_slider_value_change(d, new_idx) ==
    [d EXCEPT !.img = GetSlice(d.volume, new_idx),
              !.overlays = allset_index(d.overlays, new_idx)]

\* slider.value = value: the observers are called when the value changes
SetSliderValue(d, value) ==
    IF value = d.slider.value THEN d
    ELSE on_slider_value_change([d EXCEPT !.slider.value = value], value)

\* slider.max = max: a value above the new max is first set to it
SetSliderMax(d, max) ==
    [(IF max < d.slider.value THEN SetSliderValue(d, max) ELSE d) EXCEPT !.slider.max = max]

\* LabeledSliceDisplay._reinit_slider()
reinit_slider(d) ==
    SetSliderValue(SetSliderMax(d, Len(TrackedData(d.volume)) - 1), 0)

\* on_axis_selector_value_change(change) with change['new'] = new_axis
on_axis_selector_value_change(d, new_axis) ==
    reinit_slider([d EXCEPT !.volume.primary_axis = new_axis,
                            !.overlays = allset_axis(d.overlays, new_axis)])

\* ------------------------------------- specification: LabeledSliceDisplay

DisplayShapes == (1..MaxDim) \X (1..MaxDim) \X (1..MaxDim)

\* the volume of a shape: every entry is its position in C order
VolumeOf(shape) ==
    [x \in 1..shape[1] |-> [y \in 1..shape[2] |-> [z \in 1..shape[3] |->
        ((x - 1) * shape[2] + (y - 1)) * shape[3] + (z - 1)]]]

\* the j-th label array of a shape, entries 0 and 1
LabelOf(shape, j) ==
    [x \in 1..shape[1] |-> [y \in 1..shape[2] |-> [z \in 1..shape[3] |->
        (VolumeOf(shape)[x][y][z] + j) % 2]]]

LabelNames == <<"gt", "pred", "cochlea", "vestibulum", "canals", "nerve", "bone">>

\* a labels dictionary of n entries
LabelsOf(shape, n) ==
    [j \in 1..Min(n, Len(LabelNames)) |-> [key |-> LabelNames[j], value |-> LabelOf(shape, j)]]

Axes == {0, 1, 2}

\* LabeledSliceDisplay(volume, labels)
NewDisplay(shape, n) ==
    /\ display = None
    /\ display_args' = [shape |-> shape, labels |-> Keys(LabelsOf(shape, n))]
    /\ display' = LabeledSliceDisplay(VolumeOf(shape), LabelsOf(shape, n))
    /\ UNCHANGED <<segVars, roiVars, warned, statVars>>

\* the user moves the slider to another value of its range
SliderChange(value) ==
    /\ display # None
    /\ value \in display.slider.min..display.slider.max
    /\ value # display.slider.value
    /\ display' = SetSliderValue(display, value)
    /\ UNCHANGED <<segVars, roiVars, warned, statVars, display_args>>

\* the user selects another axis in the dropdown
AxisChange(new_axis) ==
    /\ display # None
    /\ new_axis # display.axis_selector.value
    /\ display' = on_axis_selector_value_change(
                      [display EXCEPT !.axis_selector.value = new_axis], new_axis)
    /\ UNCHANGED <<segVars, roiVars, warned, statVars, display_args>>

NextDisplay ==
    \/ /\ display = None
       /\ \E shape \in DisplayShapes, n \in 0..MaxLabels : NewDisplay(shape, n)
    \/ \E value \in 0..(MaxDim - 1) : SliderChange(value)
    \/ \E new_axis \in Axes : AxisChange(new_axis)

SpecDisplay == Idle /\ [][NextDisplay]_vars

\* --------------------------------------------------------- claims C11-C19

IsCreateFrom == roi_result # None /\ roi_result.call = "create_from"

\* the unit argument is a Unit or the value of one
ValidUnit(unit) == IsUnit(unit) \/ unit.str \in UnitValues

\* every array the maps hold has the shape of the mask
SameShapes(maps, mask) ==
    maps # None => \A j \in 1..Len(maps.dict) : Shape(maps.dict[j].value) = Shape(mask)

\* C11: TissueROI.create_from does not raise because of a missing parameter:
\* with a valid unit and maps that are not subscriptable or hold same-shape
\* arrays for any subset of T1, T2, M0, IP, it returns a TissueROI whose
\* parameters have exactly the present canonical names as keys, in the order
\* T1, T2, M0, IP, each entry a ParameterROI of that name.
C11_MissingParameters ==
    (IsCreateFrom /\ ValidUnit(roi_args.unit) /\ SameShapes(roi_args.maps, roi_args.mask)) =>
        /\ roi_result.out.status = "ok"
        /\ Keys(roi.parameters) =
               IF roi_args.maps = None THEN <<>>
               ELSE SelectSeq(CanonicalNames, LAMBDA p : HasKey(roi_args.maps.dict, p))
        /\ \A j \in 1..Len(roi.parameters) :
               roi.parameters[j].value.name = roi.parameters[j].key

\* maps without M0
C11_Witness ==
    /\ IsCreateFrom
    /\ roi_args.maps # None
    /\ Keys(roi_args.maps.dict) = <<"IP", "T2", "T1">>
    /\ roi_result.out.status = "ok"
    /\ Keys(roi.parameters) = <<"T1", "T2", "IP">>

IsSegStatistics == seg_result # None /\ seg_result.call = "compute_statistics"

LastWithName(l, name) ==
    CHOOSE j \in 1..Len(l) :
        /\ l[j].name = name
        /\ \A k \in (j + 1)..Len(l) : l[k].name # name

\* C12 (as claimed): compute_statistics of a Segmentation returns a mapping
\* with exactly one entry per distinct tissue name, the entry of a name being
\* the statistics of the last tissue (in post-sort order) carrying it.
C12_Original ==
    IsSegStatistics =>
        /\ seg_result.out.status = "ok"
        /\ LET statistics == seg_result.out.value
           IN  /\ \A i, j \in 1..Len(statistics) :
                      statistics[i].key = statistics[j].key => i = j
               /\ {statistics[j].key : j \in 1..Len(statistics)}
                      = {seg.tissues[j].name : j \in 1..Len(seg.tissues)}
               /\ \A j \in 1..Len(statistics) :
                      <<statistics[j]>> =
                          compute_tissue_statistics(
                              seg.tissues[LastWithName(seg.tissues, statistics[j].key)]).value

IsSegCreateFrom == seg_result # None /\ seg_result.call = "create_from"

\* the parameters the shared maps give under one mask, in canonical order;
\* create_from leaves the unit at its default, seconds, which T1 and T2 carry
ParametersUnder(maps, mask) ==
    IF maps = None THEN <<>>
    ELSE LET present == SelectSeq(CanonicalNames, LAMBDA p : HasKey(maps.dict, p))
         IN  [j \in 1..Len(present) |->
                 [key   |-> present[j],
                  value |-> ParameterROI(present[j],
                                NpBoolIndex(DictGet(maps.dict, present[j]).value, mask).value,
                                IF present[j] \in {"T1", "T2"}
                                THEN UnitMember("seconds") ELSE UnitMember("none"))]]

\* every array of the maps has the shape of every mask
MasksSameShapes(maps, masks) ==
    \A j \in 1..Len(masks) : SameShapes(maps, masks[j].value)

\* C13: Segmentation.create_from on maps and masks of one shape returns a
\* Segmentation with exactly one TissueROI per masks entry (none dropped, none
\* merged), each holding its own mask and the values of the shared maps under
\* that mask, in order of non-increasing volume.
C13_CreateFrom ==
    (IsSegCreateFrom /\ MasksSameShapes(seg_result.parameters, seg_result.masks)) =>
        /\ seg_result.out.status = "ok"
        /\ Len(seg.tissues) = Len(seg_result.masks)
        /\ \A j \in 1..Len(seg_result.masks) :
               \E i \in 1..Len(seg.tissues) :
                   /\ seg.tissues[i].name = seg_result.masks[j].key
                   /\ seg.tissues[i].mask = seg_result.masks[j].value
                   /\ seg.tissues[i].parameters =
                          ParametersUnder(seg_result.parameters, seg_result.masks[j].value)
        /\ \A i \in 1..(Len(seg.tissues) - 1) :
               seg.tissues[i].volume >= seg.tissues[i + 1].volume

\* two masks given smaller volume first, an empty one among them, with maps
C13_Witness ==
    /\ IsSegCreateFrom
    /\ seg_result.out.status = "ok"
    /\ seg_result.parameters # None
    /\ Len(seg_result.masks) = 2
    /\ NpSum(seg_result.masks[1].value) = 0
    /\ NpSum(seg_result.masks[2].value) = 2
    /\ seg.tissues[1].name = seg_result.masks[2].key
    /\ Len(seg.tissues[1].parameters[1].value.values) = 2

\* C14: Unit of a string outside "seconds", "milliseconds", "none" fails with
\* ValueError, and TissueROI.create_from with such a unit string fails with
\* that error, whatever the maps, and produces no TissueROI.
C14_InvalidUnit ==
    (IsCreateFrom /\ ~ValidUnit(roi_args.unit)) =>
        /\ Unit(roi_args.unit) = Raise("ValueError")
        /\ roi_result.out = Raise("ValueError")
        /\ roi = None

\* the unit string "minutes" with maps whose shape is not the mask's
C14_Witness ==
    /\ IsCreateFrom
    /\ roi_args.unit = PyStr("minutes")
    /\ roi_args.maps # None
    /\ ~SameShapes(roi_args.maps, roi_args.mask)
    /\ roi_result.out = Raise("ValueError")
    /\ roi = None

Elements(data) == {data[j] : j \in 1..Len(data)}

\* C15: the statistics of a values array do not depend on the order of its
\* elements (they are those of the array in ascending order), min and max are
\* exact extrema of the array, and for the values 1, 2, 3, 4, 5 in any order
\* mean is 3, min 1, max 5, median 3 and the square of stdev 5/2.
C15_Statistics ==
    stat_result # None =>
        /\ stat_result = compute_statistic(SortInts(stat_data))
        /\ Len(stat_data) > 0 =>
               /\ stat_result.status = "ok"
               /\ \E x \in Elements(stat_data) :
                      /\ stat_result.value.max = [num |-> x, den |-> 1]
                      /\ \A y \in Elements(stat_data) : y <= x
               /\ \E x \in Elements(stat_data) :
                      /\ stat_result.value.min = [num |-> x, den |-> 1]
                      /\ \A y \in Elements(stat_data) : y >= x
        /\ (Len(stat_data) = 5 /\ Elements(stat_data) = 1..5) =>
               /\ stat_result.value.mean   = [num |-> 3, den |-> 1]
               /\ stat_result.value.min    = [num |-> 1, den |-> 1]
               /\ stat_result.value.max    = [num |-> 5, den |-> 1]
               /\ stat_result.value.median = [num |-> 3, den |-> 1]
               /\ stat_result.value.stdev  = [sqrt |-> [num |-> 5, den |-> 2]]

\* the values 1..5 in an order that is neither ascending nor descending
C15_Witness ==
    /\ stat_result # None
    /\ stat_data = <<3, 1, 5, 2, 4>>
    /\ stat_result.status = "ok"
    /\ stat_result.value.median = [num |-> 3, den |-> 1]
    /\ stat_result.value.stdev = [sqrt |-> [num |-> 5, den |-> 2]]

\* a Segmentation has been constructed (from the list seg_input)
IsConstructed == seg # None

\* the place of the i-th input tissue in the stable ascending order by volume:
\* behind every tissue of smaller volume and every earlier one of equal volume
StableRank(l, i) ==
    1 + Cardinality({k \in 1..Len(l) : l[k].volume < l[i].volume})
      + Cardinality({k \in 1..(i - 1) : l[k].volume = l[i].volume})

\* C16: sort="increasing" stores the tissues in the stable ascending order by
\* volume (equal volumes keep their input order), and sort="decreasing" stores
\* exactly the reverse of that order (equal volumes in reverse input order).
C16_StableSort ==
    (IsConstructed /\ seg.sort # "none") =>
        /\ Len(seg.tissues) = Len(seg_input)
        /\ \A i \in 1..Len(seg_input) :
               seg.tissues[IF seg.sort = "increasing"
                           THEN StableRank(seg_input, i)
                           ELSE Len(seg_input) + 1 - StableRank(seg_input, i)]
                   = seg_input[i]

\* two different tissues of equal volume behind a larger one, sorted decreasing
C16_Witness ==
    /\ IsConstructed
    /\ seg.sort = "decreasing"
    /\ Len(seg_input) = 3
    /\ seg_input[1].volume = 1 /\ seg_input[2].volume = 2 /\ seg_input[3].volume = 1
    /\ seg_input[1] # seg_input[3]
    /\ seg.tissues = <<seg_input[2], seg_input[3], seg_input[1]>>

\* how often t is in the list l
Count(l, t) == Cardinality({j \in 1..Len(l) : l[j] = t})

\* C17: constructing a Segmentation, in any sort mode, stores a permutation of
\* the tissues given, each with every field as given, and with sort
\* "increasing" or "decreasing" the caller's list is in its order as before.
C17_Frame ==
    IsConstructed =>
        /\ Len(seg.tissues) = Len(seg_input)
        /\ \A j \in 1..Len(seg_input) :
               Count(seg.tissues, seg_input[j]) = Count(seg_input, seg_input[j])
        /\ seg.sort # "none" => caller_list = seg_input

\* a list that is not in decreasing order, with a tissue twice, sorted decreasing
C17_Witness ==
    /\ IsConstructed
    /\ seg.sort = "decreasing"
    /\ Len(seg_input) = 3
    /\ seg_input[1] = seg_input[3]
    /\ seg_input[1].volume < seg_input[2].volume
    /\ seg.tissues # seg_input
    /\ caller_list = seg_input

\* C18 (as claimed): in a LabeledSliceDisplay, after any slider and axis
\* changes, the slider value is an index of the volume along its primary
\* axis, and the base image and every overlay show the slice at the slider
\* value along that axis; also after an axis change with the slider at 0.
C18_Original ==
    display # None =>
        /\ display.slider.value \in 0..(Len(TrackedData(display.volume)) - 1)
        /\ display.img = GetSlice(display.volume, display.slider.value)
        /\ \A j \in 1..Len(display.overlays) :
               LET lo == display.overlays[j].value
               IN  /\ lo.labelarray.primary_axis = display.volume.primary_axis
                   /\ lo.img = GetSlice(lo.labelarray, display.slider.value)

\* C19 (as claimed): LabelOverlayContainer.from_dict with the default cycles
\* holds exactly one LabelOverlay per entry of the labels dictionary, for any
\* number of entries, each retrievable by its name.
C19_Original ==
    display # None =>
        /\ Len(display.overlays) = Len(display_args.labels)
        /\ \A j \in 1..Len(display_args.labels) :
               LET lo == ContainerGetItem(display.overlays, display_args.labels[j])
               IN  /\ lo.status = "ok"
                   /\ lo.value.name = display_args.labels[j]

====
